---- MODULE Spec2Model ----
(***************************************************************************)
(* A model of train.py (SimCLR training with a disentangler):              *)
(*   - the floating-point arithmetic get_lr is computed in,                *)
(*   - get_lr, the cosine annealing schedule,                              *)
(*   - nt_xent, the contrastive loss (targets, normalisation, scores),     *)
(*   - CIFAR10Pair.__getitem__ and the flattening of a batch of pairs,     *)
(*   - train, the driver: set-up, epoch and batch loops, checkpoints.      *)
(***************************************************************************)
EXTENDS Integers, Sequences, FiniteSets

VARIABLES
    \* get_lr called on its own
    lr_pc, lr_step, lr_total, lr_max, lr_min, lr_out,
    \* train
    args,         \* the configuration: backbone, batch_size, epochs, learning_rate, log_interval
    pc,           \* the statement of train about to run
    loader_len,   \* len(train_loader)
    work,         \* the expensive work done so far
    epoch,        \* the epoch loop's variable
    batch,        \* batches of this epoch fetched from train_bar
    steps,        \* the steps done on the current batch, in order
    opt_steps,    \* optimizer.step() calls completed
    last_epoch,   \* scheduler.last_epoch, LambdaLR's step index
    lr,           \* optimizer.param_groups[0]['lr']
    lr_used,      \* the rate each optimizer.step() ran with, in order
    saved,        \* the checkpoints written: <<backbone, epoch>>
    exc,          \* the exception that ended the run, if any
    \* nt_xent called on its own, on x and on c * x
    nt_pc, nt_x, nt_t, nt_c, nt_targets, nt_loss, nt_loss_scaled,
    \* one batch through the loader and the flattening
    b_pc,         \* sampling, collated, flattened, targets
    b_size,       \* args.batch_size
    b_idx,        \* the dataset indices of the batch's items, in order
    b_x,          \* the batch: item k is the stacked pair of views
    b_rows,       \* x after the view
    b_targets     \* nt_xent's targets for the rows

lrvars == <<lr_pc, lr_step, lr_total, lr_max, lr_min, lr_out>>
tvars == <<args, pc, loader_len, work, epoch, batch, steps, opt_steps, last_epoch, lr,
           lr_used, saved, exc>>
ntvars == <<nt_pc, nt_x, nt_t, nt_c, nt_targets, nt_loss, nt_loss_scaled>>
bvars == <<b_pc, b_size, b_idx, b_x, b_rows, b_targets>>
vars == <<lrvars, tvars, ntvars, bvars>>
\* the variables outside each part
notTrain == <<lrvars, ntvars, bvars>>
notLr == <<tvars, ntvars, bvars>>
notNt == <<lrvars, tvars, bvars>>
notBatch == <<lrvars, tvars, ntvars>>

(***************************************************************************)
(* Floating point.  Python's float is IEEE-754 binary64: 53 significant    *)
(* bits, round to nearest, ties to even, gradual underflow.  The model     *)
(* keeps the rounding and scales the format down: a value is an integer    *)
(* count of quanta of 2^-FracBits (the subnormal spacing) that has at most *)
(* Prec significant bits.                                                  *)
(***************************************************************************)
Prec == 4
FracBits == 10

Abs(n) == IF n < 0 THEN -n ELSE n
Sign(n) == IF n < 0 THEN -1 ELSE 1
Quantum == 2^FracBits

\* The exponent the quotient q0 (in quanta) is rounded at: the least e >= 0 with
\* q0 < 2^(Prec+e).
RoundExp(q0) == CHOOSE e \in 0..30 : q0 < 2^(Prec + e) /\ (e = 0 \/ q0 >= 2^(Prec + e - 1))

\* n/d (in quanta, d > 0) rounded to the nearest value of the format, ties to even.
RoundRat(n, d) ==
    LET a == Abs(n)
        e == RoundExp(a \div d)
        D == d * 2^e
        q == a \div D
        r == a % D
        up == 2 * r > D \/ (2 * r = D /\ q % 2 = 1)
    IN  Sign(n) * (IF up THEN q + 1 ELSE q) * 2^e

IsFloat(v) == RoundRat(v, 1) = v

fadd(a, b) == RoundRat(a + b, 1)
fsub(a, b) == RoundRat(a - b, 1)
fmul(a, b) == RoundRat(a * b, Quantum)
\* int / int (Python's true division of two ints is correctly rounded)
IntDiv(p, q) == RoundRat(p * Quantum, q)
FromInt(k) == RoundRat(k * Quantum, 1)

FOne == FromInt(1)
FHalf == IntDiv(1, 2)
\* np.pi: the float nearest to pi
FPi == RoundRat(355 * Quantum, 113)

(***************************************************************************)
(* np.cos on 0 <= x <= np.pi: the Taylor series in fixed point with 12     *)
(* fractional bits, the result rounded to the format.                      *)
(***************************************************************************)
CosScale == 2^12

RECURSIVE CosTerms(_, _, _, _)
\* sum of the terms k.. of the series, term being |x^(2k)/(2k)!| in fixed point
CosTerms(x2, term, k, sgn) ==
    IF term = 0 \/ k > 12 THEN 0
    ELSE sgn * term
         + CosTerms(x2, (term * x2) \div (CosScale * (2 * k + 1) * (2 * k + 2)), k + 1, -sgn)

cos(x) ==
    LET X == (Abs(x) * CosScale) \div Quantum
        x2 == (X * X) \div CosScale
    IN  RoundRat(CosTerms(x2, CosScale, 0, 1) * Quantum, CosScale)

(***************************************************************************)
(* get_lr (train.py:79-81)                                                 *)
(***************************************************************************)
get_lr_minus_cos(step, total_steps, r_max, r_min) ==
    fadd(r_min,
         fmul(fmul(fsub(r_max, r_min), FHalf),
              fsub(FOne, cos(fmul(IntDiv(step, total_steps), FPi)))))

get_lr(step, total_steps, r_max, r_min) ==
    fadd(r_min,
         fmul(fmul(fsub(r_max, r_min), FHalf),
              fadd(FOne, cos(fmul(IntDiv(step, total_steps), FPi)))))

(***************************************************************************)
(* get_lr called on its own: the arguments are drawn, then the function is *)
(* applied at any step 0..total_steps.                                     *)
(***************************************************************************)
MaxRate == 128
MaxTotal == 4

Rates == {v \in -MaxRate..MaxRate : IsFloat(v)}

IdleLr ==
    /\ lr_pc = "off" /\ lr_step = 0 /\ lr_total = 0 /\ lr_max = 0 /\ lr_min = 0 /\ lr_out = 0

InitLrArgs ==
    /\ lr_pc = "idle"
    /\ lr_total \in 1..MaxTotal
    /\ lr_max \in Rates
    /\ lr_min \in {v \in Rates : v <= lr_max}
    /\ lr_step = 0
    /\ lr_out = 0

GetLrCall(s) ==
    /\ lr_step' = s
    /\ lr_out' = get_lr(s, lr_total, lr_max, lr_min)
    /\ lr_pc' = "returned"
    /\ UNCHANGED <<notLr, lr_total, lr_max, lr_min>>

LrReturned == lr_pc = "returned"

\* get_lr is non-increasing from the step just computed to the next one
LrNextNotHigher ==
    lr_step < lr_total => get_lr(lr_step + 1, lr_total, lr_max, lr_min) <= lr_out

\* C6 as stated: for every T >= 1 and r_max >= r_min, get_lr(0, T, r_max, r_min) is
\* r_max exactly, get_lr(T, T, r_max, r_min) is r_min exactly, and get_lr is
\* non-increasing in the step over 0..T.
CosineEndpointsExact ==
    LrReturned =>
      /\ lr_step = 0 => lr_out = lr_max
      /\ lr_step = lr_total => lr_out = lr_min
      /\ LrNextNotHigher

\* C6 as amended: get_lr(T, T, r_max, r_min) is r_min exactly and get_lr is
\* non-increasing over 0..T; get_lr(0, T, r_max, r_min) is r_max exactly when
\* r_max - r_min and its half are computed without rounding, and otherwise, for
\* r_min >= 0, r_max up to rounding: within 4 units of relative roundoff (2^-Prec each)
\* and one quantum.
CosineEndpointsRounded ==
    LrReturned =>
      /\ lr_step = lr_total => lr_out = lr_min
      /\ LrNextNotHigher
      /\ lr_step = 0 /\ IsFloat(lr_max - lr_min) /\ (lr_max - lr_min) % 2 = 0 =>
           lr_out = lr_max
      /\ lr_step = 0 /\ lr_min >= 0 =>
           Abs(lr_out - lr_max) * 2^(Prec - 2) <= lr_max + 2^(Prec - 2)

CosineEndpointsRoundedWitness ==
    /\ LrReturned /\ lr_total = 4 /\ lr_step = 4
    /\ lr_max = IntDiv(1, 10) /\ lr_min = IntDiv(1, 1000) /\ lr_out = lr_min
    /\ get_lr(0, lr_total, lr_max, lr_min) = lr_max
    /\ get_lr(2, lr_total, lr_max, lr_min) < lr_max
    /\ get_lr(2, lr_total, lr_max, lr_min) > lr_min

(***************************************************************************)
(* train (train.py:95-164), one action per statement.                      *)
(***************************************************************************)
MaxEpochs == 3
MaxLogInterval == 3
DatasetLen == 4

Backbones == {"resnet18", "resnet34", "resnet50"}
LearningRates == {IntDiv(6, 10), FOne}
\* the minimum rate handed to get_lr, 1e-3 (train.py:140)
LrFloor == IntDiv(1, 1000)

NoExc == [type |-> "none", at |-> "none"]

\* len(train_loader) with drop_last=True
LoaderLen(n, batch_size) == n \div batch_size

\* args.epochs * len(train_loader), the total the schedule is given
TotalSteps == args.epochs * loader_len

\* The statement after p in straight-line code.
SuccSwapped(p) ==
    CASE p = "dataset" -> "loader"
      [] p = "loader" -> "assert"
      [] p = "assert" -> "disentangler"
      [] p = "disentangler" -> "model"
      [] p = "model" -> "optimizer"
      [] p = "optimizer" -> "scheduler"
      [] p = "scheduler" -> "epoch_loop"
      [] p = "view" -> "zero_grad"
      [] p = "zero_grad" -> "forward"
      [] p = "forward" -> "loss"
      [] p = "loss" -> "optimizer_step"
      [] p = "optimizer_step" -> "backward"
      [] p = "backward" -> "schedule_step"
      [] p = "schedule_step" -> "meter"
      [] p = "meter" -> "batch_loop"
      [] p = "checkpoint" -> "epoch_loop"

SuccNoSchedule(p) ==
    CASE p = "dataset" -> "loader"
      [] p = "loader" -> "assert"
      [] p = "assert" -> "disentangler"
      [] p = "disentangler" -> "model"
      [] p = "model" -> "optimizer"
      [] p = "optimizer" -> "scheduler"
      [] p = "scheduler" -> "epoch_loop"
      [] p = "view" -> "zero_grad"
      [] p = "zero_grad" -> "forward"
      [] p = "forward" -> "loss"
      [] p = "loss" -> "backward"
      [] p = "backward" -> "optimizer_step"
      [] p = "optimizer_step" -> "meter"
      [] p = "schedule_step" -> "meter"
      [] p = "meter" -> "batch_loop"
      [] p = "checkpoint" -> "epoch_loop"

Succ(p) ==
    CASE p = "dataset" -> "loader"
      [] p = "loader" -> "assert"
      [] p = "assert" -> "disentangler"
      [] p = "disentangler" -> "model"
      [] p = "model" -> "optimizer"
      [] p = "optimizer" -> "scheduler"
      [] p = "scheduler" -> "epoch_loop"
      [] p = "view" -> "zero_grad"
      [] p = "zero_grad" -> "forward"
      [] p = "forward" -> "loss"
      [] p = "loss" -> "backward"
      [] p = "backward" -> "optimizer_step"
      [] p = "optimizer_step" -> "schedule_step"
      [] p = "schedule_step" -> "meter"
      [] p = "meter" -> "batch_loop"
      [] p = "checkpoint" -> "epoch_loop"

\* Where control goes when the statement p raises: nothing in train catches.
UnwindToNextBatch(p) == IF p \in {"view", "zero_grad", "forward", "loss", "backward",
                                   "optimizer_step", "schedule_step"}
                        THEN "batch_loop" ELSE "aborted"

Unwind(p) == "aborted"

\* The statements that can fail at run time whatever the configuration (download,
\* device, memory, numerics, disk).
MayRaise == {"dataset", "disentangler", "model", "view", "forward", "loss", "backward",
             "optimizer_step", "schedule_step", "checkpoint"}

\* lr_lambda (train.py:136-140)
lr_lambda(step) == get_lr(step, TotalSteps, args.learning_rate, LrFloor)

\* LambdaLR sets every group's rate to base_lr * lr_lambda(last_epoch), at construction
\* (last_epoch 0) and at every step().
LambdaLRRate(base_lr, step) == fmul(base_lr, lr_lambda(step))

\* the condition of the checkpoint (train.py:162)
ShouldSaveStrict(e, log_interval) == e > log_interval /\ e % log_interval = 0

ShouldSave(e, log_interval) == e >= log_interval /\ e % log_interval = 0

InitTrain ==
    /\ args \in [backbone : Backbones,
                 batch_size : 1..(DatasetLen + 1),
                 epochs : 0..MaxEpochs,
                 learning_rate : LearningRates,
                 log_interval : 0..MaxLogInterval]
    /\ pc = "dataset"
    /\ loader_len = 0
    /\ work = {}
    /\ epoch = 0
    /\ batch = 0
    /\ steps = <<>>
    /\ opt_steps = 0
    /\ last_epoch = -1
    /\ lr = 0
    /\ lr_used = <<>>
    /\ saved = {}
    /\ exc = NoExc

IdleTrain ==
    /\ args = [backbone |-> "resnet18", batch_size |-> 1, epochs |-> 0,
               learning_rate |-> FOne, log_interval |-> 1]
    /\ pc = "off"
    /\ loader_len = 0
    /\ work = {}
    /\ epoch = 0
    /\ batch = 0
    /\ steps = <<>>
    /\ opt_steps = 0
    /\ last_epoch = -1
    /\ lr = 0
    /\ lr_used = <<>>
    /\ saved = {}
    /\ exc = NoExc

\* A statement fails: the exception propagates out of train.
Raise ==
    /\ pc \in MayRaise
    /\ exc' = [type |-> "RuntimeError", at |-> pc]
    /\ pc' = Unwind(pc)
    /\ UNCHANGED <<notTrain, args, loader_len, work, epoch, batch, steps, opt_steps, last_epoch, lr,
                   lr_used, saved>>

\* train.py:105-108: CIFAR10Pair(..., download=True) downloads and reads the data
Dataset ==
    /\ pc = "dataset"
    /\ work' = work \cup {"dataset"}
    /\ pc' = Succ(pc)
    /\ UNCHANGED <<notTrain, args, loader_len, epoch, batch, steps, opt_steps, last_epoch, lr,
                   lr_used, saved, exc>>

\* train.py:110-114
Loader ==
    /\ pc = "loader"
    /\ loader_len' = LoaderLen(DatasetLen, args.batch_size)
    /\ work' = work \cup {"loader"}
    /\ pc' = Succ(pc)
    /\ UNCHANGED <<notTrain, args, epoch, batch, steps, opt_steps, last_epoch, lr, lr_used, saved,
                   exc>>

\* train.py:119-120
AssertBackbone ==
    /\ pc = "assert"
    /\ IF args.backbone \in {"resnet18", "resnet34"}
       THEN pc' = Succ(pc) /\ exc' = exc
       ELSE pc' = Unwind(pc) /\ exc' = [type |-> "AssertionError", at |-> pc]
    /\ UNCHANGED <<notTrain, args, loader_len, work, epoch, batch, steps, opt_steps, last_epoch, lr,
                   lr_used, saved>>

\* train.py:121: get_disentangler trains the disentangler on the whole training set
Disentangler ==
    /\ pc = "disentangler"
    /\ work' = work \cup {"disentangler"}
    /\ pc' = Succ(pc)
    /\ UNCHANGED <<notTrain, args, loader_len, epoch, batch, steps, opt_steps, last_epoch, lr,
                   lr_used, saved, exc>>

\* train.py:122-124
Model ==
    /\ pc = "model"
    /\ work' = work \cup {"model"}
    /\ pc' = Succ(pc)
    /\ UNCHANGED <<notTrain, args, loader_len, epoch, batch, steps, opt_steps, last_epoch, lr,
                   lr_used, saved, exc>>

\* train.py:126-131
Optimizer ==
    /\ pc = "optimizer"
    /\ lr' = args.learning_rate
    /\ pc' = Succ(pc)
    /\ UNCHANGED <<notTrain, args, loader_len, work, epoch, batch, steps, opt_steps, last_epoch,
                   lr_used, saved, exc>>

\* train.py:134-140: LambdaLR's constructor takes the initial step, which calls
\* lr_lambda(0); step / total_steps divides by zero when the loader is empty or
\* epochs is 0.
Scheduler ==
    /\ pc = "scheduler"
    /\ IF TotalSteps = 0
       THEN /\ exc' = [type |-> "ZeroDivisionError", at |-> pc]
            /\ pc' = Unwind(pc)
            /\ UNCHANGED <<last_epoch, lr>>
       ELSE /\ last_epoch' = 0
            /\ lr' = LambdaLRRate(args.learning_rate, 0)
            /\ pc' = Succ(pc)
            /\ exc' = exc
    /\ UNCHANGED <<notTrain, args, loader_len, work, epoch, batch, steps, opt_steps, lr_used, saved>>

\* train.py:143-146: model.train(), then the epoch loop's head
EpochLoop ==
    /\ pc = "epoch_loop"
    /\ IF epoch < args.epochs
       THEN epoch' = epoch + 1 /\ batch' = 0 /\ pc' = "batch_loop"
       ELSE pc' = "done" /\ UNCHANGED <<epoch, batch>>
    /\ UNCHANGED <<notTrain, args, loader_len, work, steps, opt_steps, last_epoch, lr, lr_used,
                   saved, exc>>

\* train.py:147: the next batch of train_bar, or the end of the epoch
BatchLoop ==
    /\ pc = "batch_loop"
    /\ IF batch < loader_len
       THEN batch' = batch + 1 /\ steps' = <<>> /\ pc' = "view"
       ELSE pc' = "checkpoint" /\ UNCHANGED <<batch, steps>>
    /\ UNCHANGED <<notTrain, args, loader_len, work, epoch, opt_steps, last_epoch, lr, lr_used,
                   saved, exc>>

\* train.py:148-149
View ==
    /\ pc = "view"
    /\ pc' = Succ(pc)
    /\ UNCHANGED <<notTrain, args, loader_len, work, epoch, batch, steps, opt_steps, last_epoch, lr,
                   lr_used, saved, exc>>

\* train.py:151
ZeroGrad ==
    /\ pc = "zero_grad"
    /\ pc' = Succ(pc)
    /\ UNCHANGED <<notTrain, args, loader_len, work, epoch, batch, steps, opt_steps, last_epoch, lr,
                   lr_used, saved, exc>>

\* train.py:152
Forward ==
    /\ pc = "forward"
    /\ steps' = Append(steps, "forward")
    /\ work' = work \cup {"batch"}
    /\ pc' = Succ(pc)
    /\ UNCHANGED <<notTrain, args, loader_len, epoch, batch, opt_steps, last_epoch, lr, lr_used,
                   saved, exc>>

\* train.py:153
Loss ==
    /\ pc = "loss"
    /\ steps' = Append(steps, "loss")
    /\ pc' = Succ(pc)
    /\ UNCHANGED <<notTrain, args, loader_len, work, epoch, batch, opt_steps, last_epoch, lr,
                   lr_used, saved, exc>>

\* train.py:154
Backward ==
    /\ pc = "backward"
    /\ steps' = Append(steps, "backward")
    /\ pc' = Succ(pc)
    /\ UNCHANGED <<notTrain, args, loader_len, work, epoch, batch, opt_steps, last_epoch, lr,
                   lr_used, saved, exc>>

\* train.py:155: SGD updates the parameters with the group's current rate
OptimizerStep ==
    /\ pc = "optimizer_step"
    /\ steps' = Append(steps, "optimizer_step")
    /\ opt_steps' = opt_steps + 1
    /\ lr_used' = Append(lr_used, lr)
    /\ pc' = Succ(pc)
    /\ UNCHANGED <<notTrain, args, loader_len, work, epoch, batch, last_epoch, lr, saved, exc>>

\* train.py:156
ScheduleStep ==
    /\ pc = "schedule_step"
    /\ steps' = Append(steps, "schedule_step")
    /\ last_epoch' = last_epoch + 1
    /\ lr' = LambdaLRRate(args.learning_rate, last_epoch + 1)
    /\ pc' = Succ(pc)
    /\ UNCHANGED <<notTrain, args, loader_len, work, epoch, batch, opt_steps, lr_used, saved, exc>>

\* train.py:158-159
Meter ==
    /\ pc = "meter"
    /\ pc' = Succ(pc)
    /\ UNCHANGED <<notTrain, args, loader_len, work, epoch, batch, steps, opt_steps, last_epoch, lr,
                   lr_used, saved, exc>>

\* train.py:162-164: epoch % 0 raises when log_interval is 0 (epoch >= 0 holds)
Checkpoint ==
    /\ pc = "checkpoint"
    /\ IF args.log_interval = 0
       THEN /\ exc' = [type |-> "ZeroDivisionError", at |-> pc]
            /\ pc' = Unwind(pc)
            /\ saved' = saved
       ELSE /\ saved' = IF ShouldSave(epoch, args.log_interval)
                        THEN saved \cup {<<args.backbone, epoch>>}
                        ELSE saved
            /\ pc' = Succ(pc)
            /\ exc' = exc
    /\ UNCHANGED <<notTrain, args, loader_len, work, epoch, batch, steps, opt_steps, last_epoch, lr,
                   lr_used>>

NextTrain ==
    \/ Dataset \/ Loader \/ AssertBackbone \/ Disentangler \/ Model \/ Optimizer
    \/ Scheduler \/ EpochLoop \/ BatchLoop \/ View \/ ZeroGrad \/ Forward \/ Loss
    \/ Backward \/ OptimizerStep \/ ScheduleStep \/ Meter \/ Checkpoint \/ Raise

Next == NextTrain

(***************************************************************************)
(* Properties of train.                                                    *)
(***************************************************************************)
FiveSteps == <<"forward", "loss", "backward", "optimizer_step", "schedule_step">>

IsPrefix(s, t) == Len(s) <= Len(t) /\ \A i \in 1..Len(s) : s[i] = t[i]

InBatch == pc \in {"view", "zero_grad", "forward", "loss", "backward", "optimizer_step",
                   "schedule_step", "meter"}

\* C3: the driver is the state machine initialise -> per epoch { per batch { forward ->
\* loss -> backward -> optimizer step -> schedule step } } -> checkpoint decision ->
\* repeat -> terminate.  The steps done on a batch are always a prefix of the five steps
\* in that order (each once); a batch is left, and the next one fetched, only with all
\* five done, so the schedule steps completed are exactly those of the earlier batches;
\* the checkpoint decision comes after the epoch's last batch; the run ends with
\* epoch = epochs, epochs numbered 1..epochs, and every batch of every epoch processed.
TrainStepsInOrder ==
    /\ IsPrefix(steps, FiveSteps)
    /\ epoch \in 0..args.epochs
    /\ batch \in 0..loader_len
    /\ InBatch =>
         /\ epoch >= 1 /\ batch >= 1
         /\ last_epoch = (epoch - 1) * loader_len + (batch - 1)
                         + (IF Len(steps) = 5 THEN 1 ELSE 0)
         /\ steps = SubSeq(FiveSteps, 1,
                           CASE pc \in {"view", "zero_grad", "forward"} -> 0
                             [] pc = "loss" -> 1
                             [] pc = "backward" -> 2
                             [] pc = "optimizer_step" -> 3
                             [] pc = "schedule_step" -> 4
                             [] pc = "meter" -> 5)
    /\ pc = "batch_loop" /\ batch > 0 => steps = FiveSteps
    /\ pc = "batch_loop" => last_epoch = (epoch - 1) * loader_len + batch
    /\ pc = "checkpoint" =>
         /\ batch = loader_len
         /\ last_epoch = epoch * loader_len
         /\ loader_len > 0 => steps = FiveSteps
    /\ pc = "done" =>
         /\ exc = NoExc
         /\ epoch = args.epochs
         /\ opt_steps = args.epochs * loader_len

\* The statements of train in execution order: the position of the next statement, counted
\* from the start of train.  An epoch is its loop head, nine statements per batch (the
\* batch loop's head, the two views, zero_grad, the five steps, the meter), the exit of
\* the batch loop and the checkpoint decision.
SetupOrder == <<"dataset", "loader", "assert", "disentangler", "model", "optimizer", "scheduler">>

BatchOrder == <<"view", "zero_grad", "forward", "loss", "backward", "optimizer_step",
                "schedule_step", "meter">>

IndexIn(order, p) == CHOOSE i \in 1..Len(order) : order[i] = p

EpochLength == 9 * loader_len + 3

Position ==
    CASE pc \in {SetupOrder[i] : i \in 1..Len(SetupOrder)} -> IndexIn(SetupOrder, pc) - 1
      [] pc = "epoch_loop" -> 7 + epoch * EpochLength
      [] pc = "batch_loop" -> 7 + (epoch - 1) * EpochLength + 1 + 9 * batch
      [] pc \in {BatchOrder[i] : i \in 1..Len(BatchOrder)} ->
             7 + (epoch - 1) * EpochLength + 1 + 9 * (batch - 1) + IndexIn(BatchOrder, pc)
      [] pc = "checkpoint" -> 7 + (epoch - 1) * EpochLength + 2 + 9 * loader_len
      [] pc = "done" -> 7 + args.epochs * EpochLength + 1
      [] OTHER -> -1

\* C3: the steps keep that order in every state; a statement that does not raise is
\* followed by the next statement of that order (so a run without an exception is the
\* straight walk through `epochs` epochs of loader_len batches each, and is finite); and
\* the run stops only at the end of train or with an exception.
TrainStateMachine ==
    /\ []TrainStepsInOrder
    /\ [](exc = NoExc => Position >= 0)
    /\ [][exc' = NoExc => Position' = Position + 1]_vars

TrainStateMachineWitness ==
    pc = "done" /\ args.epochs = 3 /\ epoch = 3 /\ loader_len = 2 /\ opt_steps = 6

\* e's batches and its checkpoint decision are over
Ended(e) == e < epoch \/ (e = epoch /\ pc \in {"epoch_loop", "done"})

\* C4: with log_interval >= 1, the checkpoint <<backbone, e>> exists exactly when epoch e
\* has ended (all its batches processed) and e is a multiple of log_interval; a complete
\* run has written epochs \div log_interval checkpoints.
CheckpointEveryInterval ==
    args.log_interval >= 1 =>
      /\ \A e \in 1..args.epochs :
           <<args.backbone, e>> \in saved <=> (Ended(e) /\ e % args.log_interval = 0)
      /\ saved \subseteq {<<args.backbone, e>> : e \in 1..args.epochs}
      /\ <<args.backbone, epoch>> \in saved => batch = loader_len
      /\ pc = "done" => Cardinality(saved) = args.epochs \div args.log_interval

CheckpointEveryIntervalWitness ==
    /\ pc = "done" /\ args.epochs = 3 /\ args.log_interval = 2 /\ loader_len = 2
    /\ saved = {<<args.backbone, 2>>}

\* C5: when the backbone is neither resnet18 nor resnet34 the assertion fails before any
\* expensive work: no dataset read or download, no loader, no disentangler, no model, no
\* batch.
AssertBeforeAnyWork == exc.type = "AssertionError" => work = {}

\* C7: the scheduler's step index is the number of optimizer steps completed (one behind
\* between an optimizer step and its schedule step), never exceeds
\* epochs * len(train_loader), and is that total when a complete run ends.
ScheduleStepPerOptimizerStep ==
    last_epoch >= 0 =>
      /\ last_epoch <= TotalSteps
      /\ exc = NoExc => opt_steps = last_epoch + (IF pc = "schedule_step" THEN 1 ELSE 0)
      /\ opt_steps \in {last_epoch, last_epoch + 1}
      /\ pc = "done" => last_epoch = TotalSteps

ScheduleStepPerOptimizerStepWitness ==
    pc = "done" /\ args.epochs = 2 /\ loader_len = 2 /\ last_epoch = 4 /\ opt_steps = 4

\* C9: once a statement has raised, the run is over: control is out of train, nothing
\* changes any more (no further batch, no retry), and no checkpoint exists for the epoch
\* of the failure or a later one.
NoRecovery ==
    /\ [](exc # NoExc => pc = "aborted" /\ \A c \in saved : c[2] < epoch)
    /\ [][exc # NoExc => UNCHANGED tvars]_vars

NoRecoveryWitness ==
    /\ exc.at = "backward" /\ pc = "aborted" /\ epoch = 2 /\ batch = 1
    /\ saved = {<<args.backbone, 1>>}

\* C10: the optimizer step taken after s schedule steps runs with the rate
\* get_lr(s, T, learning_rate, 1e-3), T = epochs * len(train_loader).
RateFollowsSchedule ==
    \A i \in 1..Len(lr_used) :
        lr_used[i] = get_lr(i - 1, TotalSteps, args.learning_rate, LrFloor)

(***************************************************************************)
(* nt_xent (train.py:62-76).  Entries of x are integers counted in units   *)
(* of half of F.normalize's eps (1e-12), so that rows shorter than eps     *)
(* exist.  A cosine score is kept exactly, as its sign and its square (a   *)
(* reduced fraction); the loss is kept as the term cross_entropy computes  *)
(* from the logits and the targets.                                        *)
(***************************************************************************)
\* F.normalize's eps, in units
Eps == 2

Max(a, b) == IF a >= b THEN a ELSE b

RECURSIVE Gcd(_, _)
Gcd(a, b) == IF b = 0 THEN a ELSE Gcd(b, a % b)

RECURSIVE SumTo(_, _)
\* f[1] + ... + f[n]
SumTo(f, n) == IF n = 0 THEN 0 ELSE f[n] + SumTo(f, n - 1)

Dot(a, b) == SumTo([k \in 1..Len(a) |-> a[k] * b[k]], Len(a))
NormSq(v) == Dot(v, v)

\* the square of the divisor of F.normalize: max(norm, eps)
NoNormSq(v) == 1

ClampedNormSq(v) == Max(NormSq(v), Eps * Eps)

\* the score of rows a, b after F.normalize: (a . b) / (max(|a|, eps) * max(|b|, eps))
Score(a, b) ==
    LET d == Dot(a, b)
        n == d * d
        m == ClampedNormSq(a) * ClampedNormSq(b)
        g == Gcd(m, n)
    IN  [floor |-> FALSE, sgn |-> IF d > 0 THEN 1 ELSE IF d < 0 THEN -1 ELSE 0,
         num |-> n \div g, den |-> m \div g]

\* .clamp(min=1e-7): s <= 1e-7 iff s <= 0 or den / num >= 10^14; ScoreFloor is 1e-7
ScoreFloor == [floor |-> TRUE, sgn |-> 1, num |-> 0, den |-> 1]

Clamp(s) ==
    IF s.sgn <= 0 \/ ((s.den \div s.num) \div 10000000) >= 10000000 THEN ScoreFloor ELSE s

\* x_scale: the scores over t, the diagonal lowered by 1e5
Logits(x, t) ==
    [i \in 1..Len(x) |->
        [j \in 1..Len(x) |->
            [score |-> Clamp(Score(x[i], x[j])), t |-> t, minus1e5 |-> (i = j)]]]

\* torch.arange(n), as a sequence: position i holds index i - 1
Arange(n) == [i \in 1..n |-> i - 1]

\* s[start::2] += d
AddStride2(s, start, d) ==
    [i \in 1..Len(s) |-> IF i - 1 >= start /\ (i - 1 - start) % 2 = 0 THEN s[i] + d ELSE s[i]]

\* train.py:73-75
TargetsOddFirst(n) == AddStride2(AddStride2(Arange(n), 1, 1), 0, -1)

Targets(n) == AddStride2(AddStride2(Arange(n), 0, 1), 1, -1)

\* l - m for two logits of a row
LogitDiff(l, m) == IF l = m THEN [kind |-> "zero", of |-> <<>>]
                   ELSE [kind |-> "diff", of |-> <<l, m>>]

\* F.cross_entropy, mean reduction: row i contributes log(sum over j of
\* exp(l[i][j] - l[i][target])); the term of a logit lowered by 1e5 underflows to 0, the
\* target's own term is 1.  A target outside 0..n-1 raises.
CrossEntropy(l, targets) ==
    LET n == Len(l) IN
    IF \E i \in 1..n : targets[i] \notin 0..(n - 1)
    THEN [error |-> "IndexError", rows |-> <<>>]
    ELSE [error |-> "none",
          rows |-> [i \in 1..n |->
                     [j \in 1..n |->
                        IF l[i][j].minus1e5 THEN [kind |-> "underflow", of |-> <<>>]
                        ELSE IF j = targets[i] + 1 THEN [kind |-> "zero", of |-> <<>>]
                        ELSE LogitDiff(l[i][j], l[i][targets[i] + 1])]]]

nt_xent(x, t) == CrossEntropy(Logits(x, t), Targets(Len(x)))

\* c * x
Scale(c, x) == [i \in 1..Len(x) |-> [k \in 1..Len(x[i]) |-> c * x[i][k]]]

MaxRows == 4
MaxScale == 3
RowPool == {<<0, 0>>, <<1, 0>>, <<1, 1>>, <<0, 2>>, <<-2, 1>>, <<3, 0>>}
Temperatures == {<<1, 2>>, <<1, 1>>}

NoLoss == [error |-> "not called", rows |-> <<>>]

InitNtArgs ==
    /\ nt_pc = "idle"
    /\ \E n \in 1..MaxRows : nt_x \in [1..n -> RowPool]
    /\ nt_t \in Temperatures
    /\ nt_c \in 1..MaxScale
    /\ nt_targets = <<>>
    /\ nt_loss = NoLoss
    /\ nt_loss_scaled = NoLoss

IdleNt ==
    /\ nt_pc = "off" /\ nt_x = <<>> /\ nt_t = <<1, 2>> /\ nt_c = 1 /\ nt_targets = <<>>
    /\ nt_loss = NoLoss /\ nt_loss_scaled = NoLoss

\* nt_xent(x, t)
NtXentCall ==
    /\ nt_pc = "idle"
    /\ nt_targets' = Targets(Len(nt_x))
    /\ nt_loss' = nt_xent(nt_x, nt_t)
    /\ nt_pc' = "called"
    /\ UNCHANGED <<notNt, nt_x, nt_t, nt_c, nt_loss_scaled>>

\* nt_xent(c * x, t)
NtXentScaledCall ==
    /\ nt_pc = "called"
    /\ nt_loss_scaled' = nt_xent(Scale(nt_c, nt_x), nt_t)
    /\ nt_pc' = "both"
    /\ UNCHANGED <<notNt, nt_x, nt_t, nt_c, nt_targets, nt_loss>>

NextNt == NtXentCall \/ NtXentScaledCall

(***************************************************************************)
(* Properties of nt_xent.                                                  *)
(***************************************************************************)
NtCalled == nt_pc \in {"called", "both"}

\* the target of row i (rows counted from 0)
TargetOf(i) == nt_targets[i + 1]

\* C1: for an even number of rows 2N, target(2k) = 2k+1 and target(2k+1) = 2k for every
\* k in 0..N-1; so every target is a row, no row is its own target, and the target of a
\* row's target is the row.
TargetsPairUp ==
    NtCalled /\ Len(nt_x) % 2 = 0 =>
      LET n == Len(nt_x) IN
      /\ Len(nt_targets) = n
      /\ \A k \in 0..((n \div 2) - 1) : TargetOf(2 * k) = 2 * k + 1 /\ TargetOf(2 * k + 1) = 2 * k
      /\ \A i \in 0..(n - 1) :
           /\ TargetOf(i) \in 0..(n - 1)
           /\ TargetOf(i) # i
           /\ TargetOf(TargetOf(i)) = i

TargetsPairUpWitness == nt_pc = "called" /\ Len(nt_x) = 4 /\ nt_targets = <<1, 0, 3, 2>>

NoZeroRow == \A i \in 1..Len(nt_x) : NormSq(nt_x[i]) > 0

\* every row of x (and so of c * x, c >= 1) is at least eps long
RowsAtLeastEps == \A i \in 1..Len(nt_x) : NormSq(nt_x[i]) >= Eps * Eps

\* C8 as stated: for every x with no zero row, every t and every c > 0,
\* nt_xent(c * x, t) = nt_xent(x, t).
ScaleInvariantNoZeroRow == nt_pc = "both" /\ NoZeroRow => nt_loss_scaled = nt_loss

\* C8 as amended: for every x whose rows are all at least eps = 1e-12 long, before and
\* after the scaling, nt_xent(c * x, t) = nt_xent(x, t).
ScaleInvariantAboveEps == nt_pc = "both" /\ RowsAtLeastEps => nt_loss_scaled = nt_loss

ScaleInvariantAboveEpsWitness ==
    /\ nt_pc = "both" /\ RowsAtLeastEps /\ Len(nt_x) = 4 /\ nt_c = 3
    /\ nt_loss.error = "none"
    /\ \E i, j \in 1..4 : nt_loss.rows[i][j].kind = "diff"
    /\ nt_loss_scaled = nt_loss

(***************************************************************************)
(* CIFAR10Pair.__getitem__ (train.py:43-49), the loader's collation and    *)
(* the flattening in train (train.py:147-149).                             *)
(***************************************************************************)
MaxBatch == 3
\* the random draws of train_transform
Augmentations == {"a", "b"}

\* self.transform(img) with the draw r
Transform(img, r) == [img |-> img, aug |-> r]

\* __getitem__(idx) with the draws r1, r2: the stacked pair (the label is not used)
GetItem(idx, r1, r2) == <<Transform(idx, r1), Transform(idx, r2)>>

\* x.view(sizes[0] * 2, ...): a contiguous (N, 2, C, H, W) tensor read in row-major
\* order, row r (from 0) being x[r // 2][r % 2]
ViewMajor(x) ==
    [r \in 1..(2 * Len(x)) |->
        IF r <= Len(x) THEN x[r][1] ELSE x[r - Len(x)][2]]

View2N(x) == [r \in 1..(2 * Len(x)) |-> x[((r - 1) \div 2) + 1][((r - 1) % 2) + 1]]

InitBatchArgs ==
    /\ b_pc = "sampling"
    /\ b_size \in 1..MaxBatch
    /\ b_idx = <<>>
    /\ b_x = <<>>
    /\ b_rows = <<>>
    /\ b_targets = <<>>

IdleBatch ==
    /\ b_pc = "off" /\ b_size = 1 /\ b_idx = <<>> /\ b_x = <<>> /\ b_rows = <<>>
    /\ b_targets = <<>>

\* The shuffling sampler hands out an index not yet used in the epoch; the worker calls
\* __getitem__ on it; the batch is collated (stacked) once batch_size items are there.
LoadItem(idx, r1, r2) ==
    /\ b_pc = "sampling"
    /\ \A i \in 1..Len(b_idx) : b_idx[i] # idx
    /\ b_idx' = Append(b_idx, idx)
    /\ b_x' = Append(b_x, GetItem(idx, r1, r2))
    /\ b_pc' = IF Len(b_x) + 1 = b_size THEN "collated" ELSE "sampling"
    /\ UNCHANGED <<notBatch, b_size, b_rows, b_targets>>

\* train.py:148-149
FlattenBatch ==
    /\ b_pc = "collated"
    /\ b_rows' = View2N(b_x)
    /\ b_pc' = "flattened"
    /\ UNCHANGED <<notBatch, b_size, b_idx, b_x, b_targets>>

\* train.py:152-153: the model keeps the rows' order; nt_xent sets the targets
BatchTargets ==
    /\ b_pc = "flattened"
    /\ b_targets' = Targets(Len(b_rows))
    /\ b_pc' = "targets"
    /\ UNCHANGED <<notBatch, b_size, b_idx, b_x, b_rows>>

NextBatch ==
    \/ \E idx \in 0..(DatasetLen - 1) : \E r1, r2 \in Augmentations : LoadItem(idx, r1, r2)
    \/ FlattenBatch
    \/ BatchTargets

\* C2: a batch of N pairs flattens to exactly 2N rows, rows 2k and 2k+1 (from 0) being
\* the first and the second view of item k of the batch, both of item k's source image;
\* so the row count is even and the nt_xent target of every row is the other view of the
\* same item.
PairsAdjacent ==
    /\ b_pc \in {"flattened", "targets"} =>
         /\ Len(b_x) = b_size
         /\ Len(b_rows) = 2 * b_size
         /\ Len(b_rows) % 2 = 0
         /\ \A k \in 0..(b_size - 1) :
              /\ b_rows[2 * k + 1] = b_x[k + 1][1]
              /\ b_rows[2 * k + 2] = b_x[k + 1][2]
              /\ b_rows[2 * k + 1].img = b_idx[k + 1]
              /\ b_rows[2 * k + 2].img = b_idx[k + 1]
    /\ b_pc = "targets" =>
         \A r \in 0..(2 * b_size - 1) :
              /\ b_targets[r + 1] \in 0..(2 * b_size - 1)
              /\ b_rows[b_targets[r + 1] + 1] = b_x[(r \div 2) + 1][2 - (r % 2)]
              /\ b_rows[b_targets[r + 1] + 1].img = b_rows[r + 1].img

PairsAdjacentWitness ==
    /\ b_pc = "targets" /\ b_size = 3 /\ Len(b_rows) = 6
    /\ b_idx[1] # 0 /\ b_idx[2] < b_idx[1]
    /\ b_rows[3].aug # b_rows[4].aug

(***************************************************************************)
(* The specifications.                                                     *)
(***************************************************************************)
Init == InitTrain /\ IdleLr /\ IdleNt /\ IdleBatch
Spec == Init /\ [][Next]_vars

InitLr == InitLrArgs /\ IdleTrain /\ IdleNt /\ IdleBatch
NextLr == \E s \in 0..lr_total : GetLrCall(s)
SpecLr == InitLr /\ [][NextLr]_vars

InitNt == InitNtArgs /\ IdleTrain /\ IdleLr /\ IdleBatch
SpecNt == InitNt /\ [][NextNt]_vars

InitBatch == InitBatchArgs /\ IdleTrain /\ IdleLr /\ IdleNt
SpecBatch == InitBatch /\ [][NextBatch]_vars
====
